---- MODULE Spec2Model ----
(***************************************************************************)
(* The asynchronous paper-interpretation pipeline of tasks.py together     *)
(* with the AsyncTask / InterpretationHistory records of the job store.    *)
(* One Celery message per job drives process_paper_task; the search        *)
(* sub-task and save_to_history run as separate units of work.             *)
(***************************************************************************)
EXTENDS Naturals, Sequences, FiniteSets, TLC

(***************************************************************************)
(* Bounds of the model.                                                    *)
(***************************************************************************)
\* how many status writes of one behaviour may fail inside update_task_status
MaxStoreFaults == 1
\* how far around each length cap the lengths of the long texts range
MaxSlack == 1
\* how many records the search index returns at most
MaxRecords == 2

(***************************************************************************)
(* Program constants.                                                      *)
(***************************************************************************)
MaxRetries == 3          \* max_retries=3
InlineCap == 10000       \* text[:10000]
OriginalCap == 2000      \* content[:2000]
PreviewCap == 500        \* [:500]
AbstractCap == 200       \* [:200]
YearLen == 4             \* [:4]
SearchCount == 3         \* apply_async(args=[query, 3])

Jobs == {"t1", "t2"}
Paths == {"/tmp/a.pdf"}
None == "None"
NoResult == [none |-> TRUE]

\* texts the worker writes or returns as data
EXTRACT_ERR == "cannot extract text content"
API_NOT_CONFIGURED == "API key not configured"
API_NO_RESULT == "no interpretation result"
API_FAILED == "API call failed: timeout"
LLM_TEXT == "interpretation text"
\* str(e) of the exceptions that can escape a step of process_paper_task
OPEN_ERROR == "OSError: cannot open file"
BROKER_ERROR == "OperationalError: broker unreachable"

\* what the three extraction methods yield on the bytes of a file:
\* pdf / docx are "" when the parser raises or finds no text, raw is
\* file_bytes.decode('utf-8', errors='ignore')
Absent == [absent |-> TRUE]
FilePdf == [pdf |-> "page text", docx |-> "", raw |-> "%PDF"]
FileDocx == [pdf |-> "", docx |-> "paragraph", raw |-> "PK"]
FileTxt == [pdf |-> "", docx |-> "", raw |-> "plain text"]
FileEmpty == [pdf |-> "", docx |-> "", raw |-> ""]
FileContents == {FilePdf, FileDocx, FileTxt, FileEmpty}

Texts == {"", "Photosynthesis converts light energy"}
PaperLists == {<<>>, <<"paper">>}

VARIABLES
    cfg,            \* DEEPSEEK_API_KEY / SPRINGER_API_KEY present or not
    args,           \* arguments of each job's process_paper_task message
    fs,             \* the temporary directory: path -> file bytes or Absent
    tasks,          \* AsyncTask rows: job id -> [status, result, error]
    pc,             \* position of each job's current attempt
    retries,        \* self.request.retries of each job's message
    content,        \* local variable content
    interpretation, \* local variable interpretation
    recommendations,\* local variable recommendations
    exc,            \* str(e) of the exception travelling to the except clause
    subtask,        \* search_related_papers_task dispatched by the attempt
    historyQueue,   \* save_to_history messages on the broker
    historyRecords, \* InterpretationHistory rows
    storeFaultsLeft,\* status writes that may still fail
    log             \* per job: what has happened so far (observation only)

vars == <<cfg, args, fs, tasks, pc, retries, content, interpretation,
          recommendations, exc, subtask, historyQueue, historyRecords,
          storeFaultsLeft, log>>

(***************************************************************************)
(* Pure helpers.                                                           *)
(***************************************************************************)
Min(a, b) == IF a < b THEN a ELSE b

\* s[:n]
Take(s, n) == SubSeq(s, 1, Min(n, Len(s)))

\* AsyncTask.update_status: status is always overwritten, result and error
\* only when the argument is not None
UpdateStatus(task, st, res, err) ==
    [status |-> st,
     result |-> IF res # NoResult THEN res ELSE task.result,
     error  |-> IF err # None THEN err ELSE task.error]

\* update_task_status: the row after the call; ok = FALSE is the path where
\* the session raises and the exception is printed and dropped
UpdateTaskStatus(j, st, res, err, ok) ==
    IF ok THEN [tasks EXCEPT ![j] = UpdateStatus(tasks[j], st, res, err)]
    ELSE tasks

\* outcomes of one status write
StoreOutcomes == IF storeFaultsLeft > 0 THEN {TRUE, FALSE} ELSE {TRUE}

StoreFaultsAfter(ok) == IF ok THEN storeFaultsLeft ELSE storeFaultsLeft - 1

\* the try block of extract_content on the bytes read from the file: the
\* first method with non-empty text wins, the utf-8 decode with
\* errors='ignore' cannot raise and so always returns
ExtractFromBytes(f) ==
    IF f.pdf # "" THEN f.pdf
    ELSE IF f.docx # "" THEN f.docx
    ELSE f.raw

\* the dict built at "result = {...}"
BuildResult(interp, cont, recs) ==
    [interpretation   |-> interp,
     original_content |-> IF Len(cont) > OriginalCap
                          THEN Take(cont, OriginalCap) \o "..."
                          ELSE cont,
     recommendations  |-> recs,
     content_length   |-> Len(cont)]

\* attempts: executions of process_paper_task started; raised: exceptions
\* caught by its except clause; apiCalls: calls of call_deepseek_api;
\* apiRequests: requests it posted; apiFailed: requests that raised;
\* dispatched: search sub-tasks sent; enqueued: save_to_history messages
\* sent; histLost: save_to_history runs whose write raised
EmptyLog == [attempts |-> 0, raised |-> 0, apiCalls |-> 0, apiRequests |-> 0,
             apiFailed |-> 0, dispatched |-> 0, enqueued |-> 0,
             histLost |-> 0]

Bump(j, field) == [log EXCEPT ![j][field] = @ + 1]

(***************************************************************************)
(* Initial states: the jobs in Submitted have been enqueued, their rows    *)
(* are pending, the uploaded file (if any) is staged.                      *)
(***************************************************************************)
InitWith(submitted, faults) ==
    /\ cfg \in [deepseek : BOOLEAN, springer : BOOLEAN]
    /\ args \in [Jobs -> [user_id : {"u1"}, file_path : Paths \cup {None},
                          text : Texts]]
    /\ \A j \in Jobs \ submitted : args[j] = [user_id |-> "u1",
                                              file_path |-> None, text |-> ""]
    /\ fs \in [Paths -> FileContents \cup {Absent}]
    /\ tasks = [j \in Jobs |-> [status |-> "pending", result |-> NoResult,
                                error |-> None]]
    /\ pc = [j \in Jobs |-> IF j \in submitted THEN "queued" ELSE "idle"]
    /\ retries = [j \in Jobs |-> 0]
    /\ content = [j \in Jobs |-> ""]
    /\ interpretation = [j \in Jobs |-> ""]
    /\ recommendations = [j \in Jobs |-> <<>>]
    /\ exc = [j \in Jobs |-> None]
    /\ subtask = [j \in Jobs |-> [state |-> "none", value |-> <<>>]]
    /\ historyQueue = <<>>
    /\ historyRecords = <<>>
    /\ storeFaultsLeft = faults
    /\ log = [j \in Jobs |-> EmptyLog]

Init == InitWith({"t1"}, 0)

(***************************************************************************)
(* process_paper_task                                                      *)
(***************************************************************************)
\* a worker takes the message: fresh locals, then
\* update_task_status(task_id, "processing")
StartAttempt(j) ==
    /\ pc[j] = "queued"
    /\ \E ok \in StoreOutcomes :
          /\ tasks' = UpdateTaskStatus(j, "processing", NoResult, None, ok)
          /\ storeFaultsLeft' = StoreFaultsAfter(ok)
    /\ pc' = [pc EXCEPT ![j] = "extract"]
    /\ content' = [content EXCEPT ![j] = ""]
    /\ interpretation' = [interpretation EXCEPT ![j] = ""]
    /\ recommendations' = [recommendations EXCEPT ![j] = <<>>]
    /\ exc' = [exc EXCEPT ![j] = None]
    /\ log' = Bump(j, "attempts")
    /\ UNCHANGED <<cfg, args, fs, retries, subtask, historyQueue,
                   historyRecords>>

\* extract_content up to the try block: inline text returns at once (before
\* the try/finally), a missing path or file returns ""
ExtractBegin(j) ==
    /\ pc[j] = "extract"
    /\ LET a == args[j] IN
         IF a.text # ""
         THEN /\ content' = [content EXCEPT ![j] = Take(a.text, InlineCap)]
              /\ pc' = [pc EXCEPT ![j] = "checked"]
         ELSE IF a.file_path = None \/ fs[a.file_path] = Absent
         THEN /\ content' = [content EXCEPT ![j] = ""]
              /\ pc' = [pc EXCEPT ![j] = "checked"]
         ELSE /\ content' = content
              /\ pc' = [pc EXCEPT ![j] = "open"]
    /\ UNCHANGED <<cfg, args, fs, tasks, retries, interpretation,
                   recommendations, exc, subtask, historyQueue,
                   historyRecords, storeFaultsLeft, log>>

\* the finally block of extract_content: the file is removed when it still
\* exists; a failing os.remove is swallowed and leaves it in place
FinallyRemove(p) ==
    IF fs[p] = Absent THEN {fs} ELSE {fs, [fs EXCEPT ![p] = Absent]}

\* open(file_path, 'rb') and f.read(): either the bytes are read and the
\* extraction methods run on them, or the open raises, the finally block
\* runs and the exception leaves extract_content
ExtractOpen(j) ==
    /\ pc[j] = "open"
    /\ LET p == args[j].file_path IN
         \E opened \in (IF fs[p] = Absent THEN {FALSE} ELSE {TRUE, FALSE}) :
            IF opened
            THEN /\ content' = [content EXCEPT ![j] = ExtractFromBytes(fs[p])]
                 /\ pc' = [pc EXCEPT ![j] = "cleanup"]
                 /\ UNCHANGED <<fs, exc>>
            ELSE /\ fs' \in FinallyRemove(p)
                 /\ exc' = [exc EXCEPT ![j] = OPEN_ERROR]
                 /\ pc' = [pc EXCEPT ![j] = "except"]
                 /\ UNCHANGED content
    /\ UNCHANGED <<cfg, args, tasks, retries, interpretation,
                   recommendations, subtask, historyQueue, historyRecords,
                   storeFaultsLeft, log>>

\* the finally block after a return inside the try block
ExtractCleanup(j) ==
    /\ pc[j] = "cleanup"
    /\ fs' \in FinallyRemove(args[j].file_path)
    /\ pc' = [pc EXCEPT ![j] = "checked"]
    /\ UNCHANGED <<cfg, args, tasks, retries, content, interpretation,
                   recommendations, exc, subtask, historyQueue,
                   historyRecords, storeFaultsLeft, log>>

\* variant: the empty-content check is missing
AfterExtractNoStop(c) == "continue"

\* "if not content": what the attempt does with the extracted content
AfterExtract(c) == IF c = "" THEN "stop" ELSE "continue"

\* empty content: update_task_status(task_id, "failed", error=...) and
\* return None
FailEmptyContent(j) ==
    /\ pc[j] = "checked"
    /\ AfterExtract(content[j]) = "stop"
    /\ \E ok \in StoreOutcomes :
          /\ tasks' = UpdateTaskStatus(j, "failed", NoResult, EXTRACT_ERR, ok)
          /\ storeFaultsLeft' = StoreFaultsAfter(ok)
    /\ pc' = [pc EXCEPT ![j] = "done"]
    /\ UNCHANGED <<cfg, args, fs, retries, content, interpretation,
                   recommendations, exc, subtask, historyQueue,
                   historyRecords, log>>

\* call_deepseek_api: without a key the fixed message; otherwise the request
\* is made and every outcome, the exception included, is returned as text
Responses == {"ok", "empty", "error"}

\* variant: the request exception is re-raised instead of returned as text
CallDeepseekApiRaising(key, response) ==
    IF ~key THEN [raised |-> FALSE, value |-> API_NOT_CONFIGURED]
    ELSE IF response = "ok" THEN [raised |-> FALSE, value |-> LLM_TEXT]
    ELSE IF response = "empty" THEN [raised |-> FALSE, value |-> API_NO_RESULT]
    ELSE [raised |-> TRUE, value |-> API_FAILED]

CallDeepseekApi(key, response) ==
    IF ~key THEN [raised |-> FALSE, value |-> API_NOT_CONFIGURED]
    ELSE IF response = "ok" THEN [raised |-> FALSE, value |-> LLM_TEXT]
    ELSE IF response = "empty" THEN [raised |-> FALSE, value |-> API_NO_RESULT]
    ELSE [raised |-> FALSE, value |-> API_FAILED]

CallDeepseek(j) ==
    /\ pc[j] = "checked"
    /\ AfterExtract(content[j]) = "continue"
    /\ \E response \in (IF cfg.deepseek THEN Responses ELSE {"ok"}) :
         LET r == CallDeepseekApi(cfg.deepseek, response) IN
           /\ IF r.raised
              THEN /\ exc' = [exc EXCEPT ![j] = r.value]
                   /\ pc' = [pc EXCEPT ![j] = "except"]
                   /\ UNCHANGED interpretation
              ELSE /\ interpretation' = [interpretation EXCEPT ![j] = r.value]
                   /\ pc' = [pc EXCEPT ![j] = "search"]
                   /\ UNCHANGED exc
           /\ log' = [log EXCEPT
                        ![j].apiCalls = @ + 1,
                        ![j].apiRequests = IF cfg.deepseek THEN @ + 1 ELSE @,
                        ![j].apiFailed = IF cfg.deepseek /\ response = "error"
                                         THEN @ + 1 ELSE @]
    /\ UNCHANGED <<cfg, args, fs, tasks, retries, content, recommendations,
                   subtask, historyQueue, historyRecords, storeFaultsLeft>>

\* search_related_papers up to apply_async: no key gives [] at once; the
\* dispatch is outside the try block, so a broker error leaves the function
SearchDispatch(j) ==
    /\ pc[j] = "search"
    /\ IF ~cfg.springer \/ content[j] = ""
       THEN /\ recommendations' = [recommendations EXCEPT ![j] = <<>>]
            /\ pc' = [pc EXCEPT ![j] = "complete"]
            /\ UNCHANGED <<subtask, exc, log>>
       ELSE \E sent \in BOOLEAN :
              IF sent
              THEN /\ subtask' = [subtask EXCEPT
                                    ![j] = [state |-> "queued", value |-> <<>>]]
                   /\ pc' = [pc EXCEPT ![j] = "search_wait"]
                   /\ log' = Bump(j, "dispatched")
                   /\ UNCHANGED <<recommendations, exc>>
              ELSE /\ exc' = [exc EXCEPT ![j] = BROKER_ERROR]
                   /\ pc' = [pc EXCEPT ![j] = "except"]
                   /\ UNCHANGED <<recommendations, subtask, log>>
    /\ UNCHANGED <<cfg, args, fs, tasks, retries, content, interpretation,
                   historyQueue, historyRecords, storeFaultsLeft>>

\* search_related_papers_task: [] without a key and on every exception,
\* otherwise the projected records of the response
SearchRelatedPapersTask(key, response) ==
    IF ~key THEN <<>> ELSE response

\* another worker runs the dispatched sub-task
SearchTaskRun(j) ==
    /\ subtask[j].state = "queued"
    /\ \E response \in PaperLists :
         subtask' = [subtask EXCEPT
                       ![j] = [state |-> "done",
                               value |-> SearchRelatedPapersTask(cfg.springer,
                                                                 response)]]
    /\ UNCHANGED <<cfg, args, fs, tasks, pc, retries, content, interpretation,
                   recommendations, exc, historyQueue, historyRecords,
                   storeFaultsLeft, log>>

\* result.get(timeout=10) under the bare except: the value of a finished
\* sub-task, or [] when get raises (the timeout included)
SearchGet(j) ==
    /\ pc[j] = "search_wait"
    /\ \/ /\ subtask[j].state = "done"
          /\ recommendations' = [recommendations EXCEPT ![j] = subtask[j].value]
          /\ subtask' = [subtask EXCEPT ![j] = [state |-> "none", value |-> <<>>]]
       \/ /\ recommendations' = [recommendations EXCEPT ![j] = <<>>]
          /\ subtask' = subtask
    /\ pc' = [pc EXCEPT ![j] = "complete"]
    /\ UNCHANGED <<cfg, args, fs, tasks, retries, content, interpretation,
                   exc, historyQueue, historyRecords, storeFaultsLeft, log>>

\* result = {...}; update_task_status(task_id, "completed", result=result)
Complete(j) ==
    /\ pc[j] = "complete"
    /\ \E ok \in StoreOutcomes :
          /\ tasks' = UpdateTaskStatus(j, "completed",
                         BuildResult(interpretation[j], content[j],
                                     recommendations[j]), None, ok)
          /\ storeFaultsLeft' = StoreFaultsAfter(ok)
    /\ pc' = [pc EXCEPT ![j] = "enqueue"]
    /\ UNCHANGED <<cfg, args, fs, retries, content, interpretation,
                   recommendations, exc, subtask, historyQueue,
                   historyRecords, log>>

\* variant: the attempt is retried although the message was sent
AfterEnqueueAlwaysRaise(sent) == "except"

\* where the attempt goes when save_to_history.delay(...) returns or raises:
\* the call is inside the try block of process_paper_task
AfterEnqueue(sent) == IF sent THEN "done" ELSE "except"

\* save_to_history.delay(user_id, task_id, result); return result
EnqueueHistory(j) ==
    /\ pc[j] = "enqueue"
    /\ \E sent \in BOOLEAN :
         /\ pc' = [pc EXCEPT ![j] = AfterEnqueue(sent)]
         /\ IF sent
            THEN /\ historyQueue' = Append(historyQueue,
                        [user_id |-> args[j].user_id, task_id |-> j,
                         result |-> BuildResult(interpretation[j], content[j],
                                                recommendations[j])])
                 /\ log' = Bump(j, "enqueued")
                 /\ exc' = exc
            ELSE /\ historyQueue' = historyQueue
                 /\ log' = log
                 /\ exc' = [exc EXCEPT ![j] = BROKER_ERROR]
    /\ UNCHANGED <<cfg, args, fs, tasks, retries, content, interpretation,
                   recommendations, subtask, historyRecords, storeFaultsLeft>>

\* variant: the comparison is off by one
ShouldRetryInclusive(r) == r <= MaxRetries

\* "if self.request.retries < self.max_retries"
ShouldRetry(r) == r < MaxRetries

\* except Exception as e: update_task_status(task_id, "failed",
\* error=str(e)), then self.retry(exc=e) while retries are left
HandleException(j) ==
    /\ pc[j] = "except"
    /\ \E ok \in StoreOutcomes :
          /\ tasks' = UpdateTaskStatus(j, "failed", NoResult, exc[j], ok)
          /\ storeFaultsLeft' = StoreFaultsAfter(ok)
    /\ IF ShouldRetry(retries[j])
       THEN /\ retries' = [retries EXCEPT ![j] = @ + 1]
            /\ pc' = [pc EXCEPT ![j] = "queued"]
       ELSE /\ retries' = retries
            /\ pc' = [pc EXCEPT ![j] = "done"]
    /\ log' = Bump(j, "raised")
    /\ UNCHANGED <<cfg, args, fs, content, interpretation, recommendations,
                   exc, subtask, historyQueue, historyRecords>>

(***************************************************************************)
(* save_to_history                                                         *)
(***************************************************************************)
\* variant: the previews are not cut
CreateFromResultUncut(user_id, task_id, result) ==
    [user_id |-> user_id,
     task_id |-> task_id,
     content_preview |-> result.original_content,
     interpretation_preview |-> result.interpretation,
     full_content |-> result.original_content,
     full_interpretation |-> result.interpretation,
     recommendations |-> result.recommendations]

\* InterpretationHistory.create_from_result: the row that is added
CreateFromResult(user_id, task_id, result) ==
    [user_id |-> user_id,
     task_id |-> task_id,
     content_preview |-> Take(result.original_content, PreviewCap),
     interpretation_preview |-> Take(result.interpretation, PreviewCap),
     full_content |-> result.original_content,
     full_interpretation |-> result.interpretation,
     recommendations |-> result.recommendations]

RemoveAt(q, i) == SubSeq(q, 1, i - 1) \o SubSeq(q, i + 1, Len(q))

\* a worker runs one save_to_history message: the row is committed, or the
\* session raises and the exception is printed and dropped
SaveToHistory ==
    \E i \in 1..Len(historyQueue) :
       LET m == historyQueue[i] IN
         /\ historyQueue' = RemoveAt(historyQueue, i)
         /\ \E ok \in BOOLEAN :
              IF ok
              THEN /\ historyRecords' = Append(historyRecords,
                         CreateFromResult(m.user_id, m.task_id, m.result))
                   /\ log' = log
              ELSE /\ historyRecords' = historyRecords
                   /\ log' = Bump(m.task_id, "histLost")
         /\ UNCHANGED <<cfg, args, fs, tasks, pc, retries, content,
                        interpretation, recommendations, exc, subtask,
                        storeFaultsLeft>>

Next ==
    \/ \E j \in Jobs : StartAttempt(j)
    \/ \E j \in Jobs : ExtractBegin(j)
    \/ \E j \in Jobs : ExtractOpen(j)
    \/ \E j \in Jobs : ExtractCleanup(j)
    \/ \E j \in Jobs : FailEmptyContent(j)
    \/ \E j \in Jobs : CallDeepseek(j)
    \/ \E j \in Jobs : SearchDispatch(j)
    \/ \E j \in Jobs : SearchTaskRun(j)
    \/ \E j \in Jobs : SearchGet(j)
    \/ \E j \in Jobs : Complete(j)
    \/ \E j \in Jobs : EnqueueHistory(j)
    \/ \E j \in Jobs : HandleException(j)
    \/ SaveToHistory

\* the store is reliable: every status write commits
Spec == Init /\ [][Next]_vars

\* up to MaxStoreFaults status writes raise inside update_task_status
InitStoreFault == InitWith({"t1"}, MaxStoreFaults)

SpecStoreFault == InitStoreFault /\ [][Next]_vars

(***************************************************************************)
(* Properties.                                                             *)
(***************************************************************************)
Terminal == {"completed", "failed"}

Rank(st) == IF st = "pending" THEN 0 ELSE IF st = "processing" THEN 1 ELSE 2

\* InterpretationHistory rows / queued save_to_history messages of job j
CountRecords(j) ==
    Cardinality({i \in 1..Len(historyRecords) : historyRecords[i].task_id = j})

PendingHistory(j) ==
    Cardinality({i \in 1..Len(historyQueue) : historyQueue[i].task_id = j})

\* C1: the stored status of a job only moves forward along
\* pending -> processing -> (completed | failed), and once it is completed
\* or failed it never changes again.
C1_StatusMonotonic ==
    [][\A j \in Jobs :
          /\ Rank(tasks'[j].status) >= Rank(tasks[j].status)
          /\ tasks[j].status \in Terminal
                => tasks'[j].status = tasks[j].status]_vars

\* C2: in every reachable state a completed job has a result and no error,
\* and a failed job has an error and no result.
C2_ResultErrorExclusive ==
    \A j \in Jobs :
       /\ tasks[j].status = "completed"
             => tasks[j].result # NoResult /\ tasks[j].error = None
       /\ tasks[j].status = "failed"
             => tasks[j].error # None /\ tasks[j].result = NoResult

C4_EndsTerminal ==
    \A j \in Jobs : pc[j] = "done" => tasks[j].status \in Terminal

C8_SearchNeverRaises ==
    [][\A j \in Jobs :
          pc[j] \in {"search", "search_wait"}
             => /\ pc'[j] \in {"search", "search_wait", "complete"}
                /\ tasks'[j] = tasks[j]
                /\ retries'[j] = retries[j]]_vars

\* C9: once completed has been written for a job, the stored status and
\* result stay as written and no retry is scheduled, whatever happens to
\* the history step.
C9_HistoryFailureInvisible ==
    [][\A j \in Jobs :
          tasks[j].status = "completed"
             => /\ tasks'[j] = tasks[j]
                /\ retries'[j] = retries[j]]_vars

C11_FileDeletedOnReturn ==
    [][\A j \in Jobs :
          LET p == args[j].file_path IN
            (p # None /\ pc[j] \in {"extract", "open", "cleanup"}
                      /\ pc'[j] \in {"checked", "except"})
               => \/ fs'[p] = Absent
                  \/ pc[j] \in {"open", "cleanup"}]_vars

(***************************************************************************)
(* Two jobs whose uploads were staged under the same filename.             *)
(***************************************************************************)
\* save_upload_file: the bytes are written to tempdir/filename, over
\* whatever is there
SaveUploadFile(fsys, filename, bytes) == [fsys EXCEPT ![filename] = bytes]

\* what the user of each job uploaded
Uploaded == [j \in Jobs |-> IF j = "t1" THEN FilePdf ELSE FileTxt]

\* both uploads are staged, then both jobs are enqueued with the returned
\* path and no inline text
InitTwoJobs ==
    /\ InitWith(Jobs, 0)
    /\ cfg = [deepseek |-> FALSE, springer |-> TRUE]
    /\ \A j \in Jobs : args[j].text = "" /\ args[j].file_path = "/tmp/a.pdf"
    /\ fs = SaveUploadFile(
               SaveUploadFile([p \in Paths |-> Absent],
                              args["t1"].file_path, Uploaded["t1"]),
               args["t2"].file_path, Uploaded["t2"])

SpecTwoJobs == InitTwoJobs /\ [][Next]_vars

\* C12: jobs with different ids do not interfere: a job only ever extracts
\* the content of its own upload, and a step of one job changes neither the
\* other job's row, nor its position or content, nor the input file the
\* other job has still to read.
C12_NoInterference ==
    /\ [](\A j \in Jobs :
             content[j] \in {"", ExtractFromBytes(Uploaded[j])})
    /\ [][\A i, j \in Jobs :
             (i # j /\ pc'[i] # pc[i])
                => /\ tasks'[j] = tasks[j]
                   /\ pc'[j] = pc[j]
                   /\ content'[j] = content[j]
                   /\ (args[j].file_path # None
                          /\ pc[j] \in {"queued", "extract", "open"})
                         => fs'[args[j].file_path]
                               = fs[args[j].file_path]]_vars

\* the row an attempt leaves when it is the only one run on a fresh pending
\* row: the three ways an attempt ends
FreshCompleted(j) ==
    [status |-> "completed",
     result |-> BuildResult(interpretation[j], content[j], recommendations[j]),
     error  |-> None]

FreshEmpty == [status |-> "failed", result |-> NoResult, error |-> EXTRACT_ERR]

\* an exception is caught before or after the completed write of the attempt
FreshRaised(j) ==
    {[status |-> "failed", result |-> res, error |-> exc[j]] :
        res \in {NoResult, BuildResult(interpretation[j], content[j],
                                       recommendations[j])}}

\* C13: re-running a job id overwrites the row wholesale: when an attempt
\* finishes, the stored (status, result, error) is what that attempt alone
\* would have left on a fresh pending row; nothing of an earlier attempt
\* survives.
C13_OverwrittenWholesale ==
    [][\A j \in Jobs :
          /\ (pc[j] = "enqueue" /\ pc'[j] = "done")
                => tasks'[j] = FreshCompleted(j)
          /\ (pc[j] = "checked" /\ pc'[j] = "done")
                => tasks'[j] = FreshEmpty
          /\ (pc[j] = "except" /\ pc'[j] \in {"queued", "done"})
                => tasks'[j] \in FreshRaised(j)]_vars

\* the string extract_content returns after the three methods
SENTINEL == "cannot extract text, the file may be a scan"

\* C14: when the file exists and the paginated, the flow and the plain-text
\* method all yield empty output, extract_content returns the fixed sentinel
\* and not an empty string.
C14_SentinelOnEmptyOutput ==
    [][\A j \in Jobs :
          (pc[j] = "open" /\ pc'[j] = "cleanup")
             => LET f == fs[args[j].file_path] IN
                  (f.pdf = "" /\ f.docx = "" /\ f.raw = "")
                     => content'[j] = SENTINEL]_vars

\* C15: without an interpretation credential a job with non-empty inline
\* text is never failed or retried and no request is posted; it ends
\* completed on its first attempt with the fixed placeholder as its
\* interpretation, and with the original text as content preview when the
\* text is shorter than 2000.
C15_UnconfiguredCompletes ==
    \A j \in Jobs :
       (~cfg.deepseek /\ args[j].text # "")
          => /\ log[j].apiRequests = 0
             /\ retries[j] = 0
             /\ tasks[j].status # "failed"
             /\ pc[j] = "done"
                   => /\ tasks[j].status = "completed"
                      /\ log[j].attempts = 1
                      /\ tasks[j].result.interpretation = API_NOT_CONFIGURED
                      /\ Len(args[j].text) < 2000
                            => tasks[j].result.original_content = args[j].text

(***************************************************************************)
(* Long texts: both jobs have completed on inline texts and                *)
(* interpretations whose lengths lie around the caps; their                *)
(* save_to_history messages are on the queue.                              *)
(***************************************************************************)
RECURSIVE Rep(_, _)
Rep(ch, n) ==
    IF n = 0 THEN ""
    ELSE IF n % 2 = 0 THEN LET h == Rep(ch, n \div 2) IN h \o h
    ELSE ch \o Rep(ch, n - 1)

\* a text of length n whose last character differs from the others
Str(n) == IF n = 0 THEN "" ELSE Rep("a", n - 1) \o "z"

Around(cap) == (cap - MaxSlack)..(cap + MaxSlack)

LongTexts == {Str(n) : n \in {1} \cup Around(PreviewCap) \cup Around(OriginalCap)}

LongInterpretations == {Str(n) : n \in {0} \cup Around(PreviewCap)}

HistoryMessage(j) ==
    [user_id |-> args[j].user_id, task_id |-> j, result |-> tasks[j].result]

InitHistory ==
    /\ cfg = [deepseek |-> TRUE, springer |-> FALSE]
    /\ content \in [Jobs -> LongTexts]
    /\ interpretation \in [Jobs -> LongInterpretations]
    /\ args = [j \in Jobs |-> [user_id |-> "u1", file_path |-> None,
                               text |-> content[j]]]
    /\ fs = [p \in Paths |-> Absent]
    /\ tasks = [j \in Jobs |->
                  [status |-> "completed",
                   result |-> BuildResult(interpretation[j], content[j], <<>>),
                   error  |-> None]]
    /\ pc = [j \in Jobs |-> "done"]
    /\ retries = [j \in Jobs |-> 0]
    /\ recommendations = [j \in Jobs |-> <<>>]
    /\ exc = [j \in Jobs |-> None]
    /\ subtask = [j \in Jobs |-> [state |-> "none", value |-> <<>>]]
    /\ historyQueue = <<HistoryMessage("t1"), HistoryMessage("t2")>>
    /\ historyRecords = <<>>
    /\ storeFaultsLeft = 0
    /\ log = [j \in Jobs |-> [EmptyLog EXCEPT !.attempts = 1, !.apiCalls = 1,
                                              !.apiRequests = 1,
                                              !.enqueued = 1]]

NextHistory == SaveToHistory

SpecHistory == InitHistory /\ [][NextHistory]_vars

\* C16: in every InterpretationRecord each preview field is at most 500
\* long and is a prefix of (or equal to) the corresponding full field.
C16_PreviewIsPrefix ==
    \A i \in 1..Len(historyRecords) :
       LET r == historyRecords[i] IN
         /\ Len(r.content_preview) <= 500
         /\ Len(r.content_preview) <= Len(r.full_content)
         /\ r.content_preview
               = SubSeq(r.full_content, 1, Len(r.content_preview))
         /\ Len(r.interpretation_preview) <= 500
         /\ Len(r.interpretation_preview) <= Len(r.full_interpretation)
         /\ r.interpretation_preview
               = SubSeq(r.full_interpretation, 1,
                        Len(r.interpretation_preview))

C16_Witness ==
    \E i \in 1..Len(historyRecords) :
       LET r == historyRecords[i] IN
         /\ Len(r.full_content) > 500
         /\ Len(r.content_preview) = 500
         /\ r.content_preview # r.full_content
         /\ Len(r.full_interpretation) > 500
         /\ Len(r.interpretation_preview) = 500

(***************************************************************************)
(* search_related_papers_task on the records of the search index: job t1   *)
(* has dispatched the sub-task and waits for it; response is the list of   *)
(* records the index will return to the sub-task's request.                *)
(***************************************************************************)
RECURSIVE Join(_)
\* ', '.join(names)
Join(names) ==
    IF Len(names) = 0 THEN ""
    ELSE IF Len(names) = 1 THEN names[1]
    ELSE names[1] \o ", " \o Join(Tail(names))

\* record.get('abstract', '')[:200] + '...' if record.get('abstract') else ''
ProjectAbstract(abstract) ==
    IF abstract # "" THEN Take(abstract, AbstractCap) \o "..." ELSE ""

\* the dict built for one record of data['records']
ProjectRecord(record) ==
    [title       |-> record.title,
     authors     |-> Join(record.creators),
     publication |-> record.publicationName,
     year        |-> IF record.publicationDate # ""
                     THEN Take(record.publicationDate, YearLen) ELSE "",
     url         |-> IF Len(record.url) > 0 THEN record.url[1] ELSE "",
     abstract    |-> ProjectAbstract(record.abstract)]

\* the try block of search_related_papers_task: data['records'][:count]
SearchPapers(key, records, count) ==
    IF ~key THEN <<>>
    ELSE [i \in 1..Min(count, Len(records)) |-> ProjectRecord(records[i])]

Abstracts == {Str(n) : n \in {0, 1} \cup Around(AbstractCap)}

IndexRecords ==
    [title : {"A title"}, creators : {<<"Ann", "Bob">>},
     publicationName : {"Journal"}, publicationDate : {"", "2021-05-01"},
     url : {<<"http://doi/x">>}, abstract : Abstracts]

IndexResponses == UNION {[1..n -> IndexRecords] : n \in 0..MaxRecords}

InitProjection ==
    /\ cfg = [deepseek |-> FALSE, springer |-> TRUE]
    /\ args = [j \in Jobs |->
                 [user_id |-> "u1", file_path |-> None,
                  text |-> IF j = "t1"
                           THEN "Photosynthesis converts light energy"
                           ELSE ""]]
    /\ fs = [p \in Paths |-> Absent]
    /\ tasks = [j \in Jobs |->
                  [status |-> IF j = "t1" THEN "processing" ELSE "pending",
                   result |-> NoResult, error |-> None]]
    /\ pc = [j \in Jobs |-> IF j = "t1" THEN "search_wait" ELSE "idle"]
    /\ retries = [j \in Jobs |-> 0]
    /\ content = [j \in Jobs |-> args[j].text]
    /\ interpretation = [j \in Jobs |->
                           IF j = "t1" THEN API_NOT_CONFIGURED ELSE ""]
    /\ recommendations = [j \in Jobs |-> <<>>]
    /\ exc = [j \in Jobs |-> None]
    /\ \E response \in IndexResponses :
          subtask = [j \in Jobs |->
                       IF j = "t1"
                       THEN [state |-> "queued", value |-> <<>>,
                             response |-> response]
                       ELSE [state |-> "none", value |-> <<>>]]
    /\ historyQueue = <<>>
    /\ historyRecords = <<>>
    /\ storeFaultsLeft = 0
    /\ log = [j \in Jobs |->
                IF j = "t1"
                THEN [EmptyLog EXCEPT !.attempts = 1, !.apiCalls = 1,
                                      !.dispatched = 1]
                ELSE EmptyLog]

\* a worker runs the sub-task on the index's response
SearchTaskProject(j) ==
    /\ subtask[j].state = "queued"
    /\ "response" \in DOMAIN subtask[j]
    /\ subtask' = [subtask EXCEPT
                     ![j] = [state |-> "done",
                             value |-> SearchPapers(cfg.springer, @.response,
                                                    SearchCount),
                             response |-> @.response]]
    /\ UNCHANGED <<cfg, args, fs, tasks, pc, retries, content, interpretation,
                   recommendations, exc, historyQueue, historyRecords,
                   storeFaultsLeft, log>>

NextProjection == \E j \in Jobs : SearchTaskProject(j)

SpecProjection == InitProjection /\ [][NextProjection]_vars

\* C17: the projected abstract of every record is the first 200 units of
\* the record's abstract, with the ellipsis marker appended only when the
\* abstract was longer than 200; an abstract of at most 200 is unchanged.
C17_EllipsisOnlyWhenTruncated ==
    \A j \in Jobs :
       (subtask[j].state = "done" /\ "response" \in DOMAIN subtask[j])
          => \A i \in 1..Len(subtask[j].value) :
                LET abstract == subtask[j].response[i].abstract
                    projected == subtask[j].value[i].abstract
                IN  IF Len(abstract) > 200
                    THEN projected = SubSeq(abstract, 1, 200) \o "..."
                    ELSE projected = abstract

\* C18: a history record (or a save_to_history message) of a job exists
\* only after the store has held status completed with a result for that
\* job; the row keeps every result it was given, so a row without a result
\* has never been completed.
C18_HistoryAfterCompleted ==
    \A j \in Jobs :
       (CountRecords(j) + PendingHistory(j) > 0)
          => tasks[j].result # NoResult

\* a job submitted with a file reference and no inline text
FileJob(j) == args[j].text = "" /\ args[j].file_path # None

====
